---------------------------- MODULE Spec2Model ----------------------------
(***************************************************************************)
(* The HLS download job of app.py: run_download (HLS mode) calling         *)
(* download_hls_playlist.  One job is one pass through                     *)
(*   load playlist -> pick variant -> load variant -> segments check ->    *)
(*   mkdtemp -> per segment retry loop -> merge -> rmtree -> handler.      *)
(* The network, the m3u8 parser and the filesystem are the environment:    *)
(* every reply they can give is a nondeterministic choice of the action    *)
(* that asks for it.                                                       *)
(***************************************************************************)
EXTENDS Integers, Sequences, FiniteSets, TLC

\* ------------------------------------------------------------------ bounds
MaxSegs == 2
MaxRetries == 2
MaxRend == 3
MaxBW == 2
NumJobs == 2

\* The bodies a segment URL can serve, and what may already be at the
\* output path before the job.
SegBodies == { <<"a">>, <<"b">>, <<"a", "b">> }
OldData == <<"old">>

\* A rendition's stream_info.bandwidth: None when the playlist declares
\* none, else the declared number.
NoBandwidth == [declared |-> FALSE, value |-> 0]
Bandwidths == {NoBandwidth} \cup { [declared |-> TRUE, value |-> b] : b \in 0..MaxBW }

\* Causes of a failed segment attempt: a connection error or timeout, a
\* non-success status (raise_for_status), an error while streaming the body.
Causes == {"timeout", "status", "stream"}

\* ----------------------------------------------------------------- helpers
SeqsUpTo(S, n) == UNION { [1..k -> S] : k \in 0..n }

Prefix(s, n) == SubSeq(s, 1, n)

Range(s) == { s[i] : i \in DOMAIN s }

\* A playlist document as m3u8.load returns it: a media playlist (its URI
\* lines are segments) or a variant playlist (its URI lines are renditions),
\* never both, either list possibly empty.
MediaDoc(segs) == [kind |-> "media", renditions |-> <<>>, segments |-> segs]
MasterDoc(rends) == [kind |-> "master", renditions |-> rends, segments |-> <<>>]
NoDoc == [kind |-> "none", renditions |-> <<>>, segments |-> <<>>]

Documents ==
    { MediaDoc(s) : s \in SeqsUpTo(SegBodies, MaxSegs) }
        \cup { MasterDoc(r) : r \in SeqsUpTo(Bandwidths, MaxRend) }

is_variant(doc) == doc.kind = "master"

NoErr == [kind |-> "none", ordinal |-> 0, cause |-> "none"]
Error(k, i, c) == [kind |-> k, ordinal |-> i, cause |-> c]

AbsentFile == [exists |-> FALSE, data |-> <<>>]
File(bytes) == [exists |-> TRUE, data |-> bytes]

\* A progress value handed to progress_bar.progress: the fraction num/den.
Fraction(num, den) == [num |-> num, den |-> den]

\* --------------------------------------------------------- variant policy
\* key=lambda p: p.stream_info.bandwidth or 0
BandwidthKey(b) == IF b.declared THEN b.value ELSE 0

RECURSIVE InsertDesc(_, _, _)
InsertDesc(sorted, x, rends) ==
    IF sorted = <<>> THEN <<x>>
    ELSE IF BandwidthKey(rends[Head(sorted)]) >= BandwidthKey(rends[x])
         THEN <<Head(sorted)>> \o InsertDesc(Tail(sorted), x, rends)
         ELSE <<x>> \o sorted

RECURSIVE SortFrom(_, _, _)
SortFrom(sorted, i, rends) ==
    IF i > Len(rends) THEN sorted
    ELSE SortFrom(InsertDesc(sorted, i, rends), i + 1, rends)

RECURSIVE InsertDesc_Unstable(_, _, _)
InsertDesc_Unstable(sorted, x, rends) ==
    IF sorted = <<>> THEN <<x>>
    ELSE IF BandwidthKey(rends[Head(sorted)]) > BandwidthKey(rends[x])
         THEN <<Head(sorted)>> \o InsertDesc_Unstable(Tail(sorted), x, rends)
         ELSE <<x>> \o sorted

RECURSIVE SortFrom_Unstable(_, _, _)
SortFrom_Unstable(sorted, i, rends) ==
    IF i > Len(rends) THEN sorted
    ELSE SortFrom_Unstable(InsertDesc_Unstable(sorted, i, rends), i + 1, rends)

SortStreams_LastOfTies(rends) == SortFrom_Unstable(<<>>, 1, rends)

\* sorted(playlist.playlists, key=..., reverse=True): a stable sort, so
\* renditions of equal bandwidth keep their playlist order.  The result
\* lists the renditions by their position in the playlist.
SortStreams(rends) == SortFrom(<<>>, 1, rends)

\* ------------------------------------------------------------------ state
VARIABLES
    pc,             \* where the job is
    retries,        \* the retries argument (max_retries of the UI)
    playlist,       \* the playlist local of download_hls_playlist
    nloads,         \* how many times m3u8.load has been called
    chosen,         \* the rendition picked from a variant playlist (0: none)
    segments,       \* playlist.segments: the body each segment URL serves
    total_segments,
    tmpdir,         \* whether the mkdtemp directory exists
    tmpfiles,       \* the files in tmpdir: segment ordinal -> bytes
    segment_files,  \* the seg_name list, by ordinal
    idx,            \* the for loop's idx
    attempt,        \* the while loop's attempt
    reqs,           \* session.get calls made per segment
    fails,          \* how many of them raised, per segment
    output,         \* the file at output_file
    mergePos,       \* position of the merge loop in segment_files
    progress,       \* the values given to progress_bar.progress, in order
    err,            \* the exception in flight or handled
    lastCause,      \* why the latest failed segment request failed
    \* Several jobs in one module namespace (SpecJobs), each a call of
    \* run_download in a thread of its own:
    progress_bar,   \* the module global: the job whose widget it is bound to
    writers,        \* per widget, the jobs that have called .progress on it
    dirs,           \* the names of the mkdtemp directories that exist
    jfiles,         \* the files in them, each with the job that wrote it
    jpc,            \* per job, where it is
    jdir,           \* per job, its tmpdir local (0: not yet set)
    jtotal,         \* per job, its total_segments
    jidx,           \* per job, its idx
    jerr            \* per job, whether an exception is in flight or handled

jobVars == << progress_bar, writers, dirs, jfiles, jpc, jdir, jtotal, jidx, jerr >>

vars == << pc, retries, playlist, nloads, chosen, segments, total_segments,
           tmpdir, tmpfiles, segment_files, idx, attempt, reqs, fails, output,
           mergePos, progress, err, lastCause, jobVars >>

\* The jobs of SpecJobs and the names mkdtemp can hand out.
Jobs == 1..NumJobs
DirNames == 1..(NumJobs + 1)

\* progress_bar = None (line 55); no job started.
JobsInit ==
    /\ progress_bar = 0
    /\ writers = [w \in Jobs |-> {}]
    /\ dirs = {}
    /\ jfiles = {}
    /\ jpc = [j \in Jobs |-> "Idle"]
    /\ jdir = [j \in Jobs |-> 0]
    /\ jtotal = [j \in Jobs |-> 0]
    /\ jidx = [j \in Jobs |-> 0]
    /\ jerr = [j \in Jobs |-> FALSE]

NoFiles == [i \in {} |-> <<>>]

Init ==
    /\ pc = "Idle"
    /\ retries \in 0..MaxRetries
    /\ playlist = NoDoc
    /\ nloads = 0
    /\ chosen = 0
    /\ segments = <<>>
    /\ total_segments = 0
    /\ tmpdir = FALSE
    /\ tmpfiles = NoFiles
    /\ segment_files = <<>>
    /\ idx = 0
    /\ attempt = 0
    /\ reqs = <<>>
    /\ fails = <<>>
    /\ output \in {AbsentFile, File(OldData)}
    /\ mergePos = 0
    /\ progress = <<>>
    /\ err = NoErr
    /\ lastCause = "none"
    /\ JobsInit

\* ---------------------------------------------------------------- actions
\* run_download up to the call of download_hls_playlist.
Start ==
    /\ pc = "Idle"
    /\ progress' = Append(progress, Fraction(0, 1))
    /\ pc' = "Load"
    /\ UNCHANGED << retries, playlist, nloads, chosen, segments,
                    total_segments, tmpdir, tmpfiles, segment_files, idx,
                    attempt, reqs, fails, output, mergePos, err >>
    /\ UNCHANGED lastCause
    /\ UNCHANGED jobVars

\* Raising before the try block (lines 95-107): nothing to clean up, the
\* exception goes straight to run_download's handler.
Raise(e) ==
    /\ err' = e
    /\ pc' = "Except"

RaiseInTry_MergeAnyway(e) ==
    /\ err' = e
    /\ pc' = "Merge"

\* Raising inside the try block (lines 108-141): the finally clause runs.
RaiseInTry(e) ==
    /\ err' = e
    /\ pc' = "Finally"

\* playlist = m3u8.load(m3u8_url), the document parsed.
LoadPlaylist ==
    /\ pc = "Load"
    /\ \E doc \in Documents : playlist' = doc
    /\ nloads' = nloads + 1
    /\ pc' = "Variant"
    /\ UNCHANGED << retries, chosen, segments, total_segments, tmpdir,
                    tmpfiles, segment_files, idx, attempt, reqs, fails, output,
                    mergePos, progress, err >>
    /\ UNCHANGED lastCause
    /\ UNCHANGED jobVars

\* m3u8.load(m3u8_url) raising: the fetch failed or the text did not parse.
LoadPlaylistFails ==
    /\ pc = "Load"
    /\ nloads' = nloads + 1
    /\ \E c \in {"fetch", "parse"} : Raise(Error("load", 0, c))
    /\ UNCHANGED << retries, playlist, chosen, segments, total_segments,
                    tmpdir, tmpfiles, segment_files, idx, attempt, reqs, fails,
                    output, mergePos, progress >>
    /\ UNCHANGED lastCause
    /\ UNCHANGED jobVars

\* if playlist.is_variant: sort the renditions, take the first.
SelectVariant ==
    /\ pc = "Variant"
    /\ IF is_variant(playlist)
       THEN LET streams == SortStreams(playlist.renditions)
            IN  IF streams = <<>>
                THEN /\ Raise(Error("no_streams", 0, "none"))
                     /\ UNCHANGED chosen
                ELSE /\ chosen' = streams[1]
                     /\ pc' = "LoadChosen"
                     /\ UNCHANGED err
       ELSE /\ pc' = "Segments"
            /\ UNCHANGED << chosen, err >>
    /\ UNCHANGED << retries, playlist, nloads, segments, total_segments,
                    tmpdir, tmpfiles, segment_files, idx, attempt, reqs, fails,
                    output, mergePos, progress >>
    /\ UNCHANGED lastCause
    /\ UNCHANGED jobVars

LoadChosen_Recursive ==
    /\ pc = "LoadChosen"
    /\ \E doc \in Documents : playlist' = doc
    /\ nloads' = nloads + 1
    /\ pc' = "Variant"
    /\ UNCHANGED << retries, chosen, segments, total_segments, tmpdir,
                    tmpfiles, segment_files, idx, attempt, reqs, fails, output,
                    mergePos, progress, err >>
    /\ UNCHANGED lastCause
    /\ UNCHANGED jobVars

\* playlist = m3u8.load(chosen): whatever document the rendition URI serves,
\* a media playlist or again a variant playlist.
LoadChosen ==
    /\ pc = "LoadChosen"
    /\ \E doc \in Documents : playlist' = doc
    /\ nloads' = nloads + 1
    /\ pc' = "Segments"
    /\ UNCHANGED << retries, chosen, segments, total_segments, tmpdir,
                    tmpfiles, segment_files, idx, attempt, reqs, fails, output,
                    mergePos, progress, err >>
    /\ UNCHANGED lastCause
    /\ UNCHANGED jobVars

LoadChosenFails ==
    /\ pc = "LoadChosen"
    /\ nloads' = nloads + 1
    /\ \E c \in {"fetch", "parse"} : Raise(Error("load", 0, c))
    /\ UNCHANGED << retries, playlist, chosen, segments, total_segments,
                    tmpdir, tmpfiles, segment_files, idx, attempt, reqs, fails,
                    output, mergePos, progress >>
    /\ UNCHANGED lastCause
    /\ UNCHANGED jobVars

CheckSegments_OpensOutput ==
    /\ pc = "Segments"
    /\ segments' = playlist.segments
    /\ output' = File(<<>>)
    /\ IF segments' = <<>>
       THEN /\ Raise(Error("no_segments", 0, "none"))
            /\ UNCHANGED << total_segments, tmpdir, segment_files, idx,
                            attempt, reqs, fails, progress >>
       ELSE /\ tmpdir' = TRUE
            /\ total_segments' = Len(segments')
            /\ progress' = Append(progress, Fraction(0, 1))
            /\ segment_files' = <<>>
            /\ idx' = 1
            /\ attempt' = 0
            /\ reqs' = [i \in 1..Len(segments') |-> 0]
            /\ fails' = [i \in 1..Len(segments') |-> 0]
            /\ pc' = "Fetch"
            /\ UNCHANGED err
    /\ UNCHANGED << retries, playlist, nloads, chosen, tmpfiles, mergePos,
                    lastCause >>
    /\ UNCHANGED jobVars

\* segments = playlist.segments; the empty check; mkdtemp; the first
\* progress update; the for loop entered at idx 1 with attempt = 0.
CheckSegments ==
    /\ pc = "Segments"
    /\ segments' = playlist.segments
    /\ IF segments' = <<>>
       THEN /\ Raise(Error("no_segments", 0, "none"))
            /\ UNCHANGED << total_segments, tmpdir, segment_files, idx,
                            attempt, reqs, fails, progress >>
       ELSE /\ tmpdir' = TRUE
            /\ total_segments' = Len(segments')
            /\ progress' = Append(progress, Fraction(0, 1))
            /\ segment_files' = <<>>
            /\ idx' = 1
            /\ attempt' = 0
            /\ reqs' = [i \in 1..Len(segments') |-> 0]
            /\ fails' = [i \in 1..Len(segments') |-> 0]
            /\ pc' = "Fetch"
            /\ UNCHANGED err
    /\ UNCHANGED << retries, playlist, nloads, chosen, tmpfiles, output,
                    mergePos >>
    /\ UNCHANGED lastCause
    /\ UNCHANGED jobVars

\* tempfile.mkdtemp() raising (no space, no permission): before the try.
MkdtempFails ==
    /\ pc = "Segments"
    /\ playlist.segments # <<>>
    /\ segments' = playlist.segments
    /\ Raise(Error("io", 0, "mkdtemp"))
    /\ UNCHANGED << retries, playlist, nloads, chosen, total_segments,
                    tmpdir, tmpfiles, segment_files, idx, attempt, reqs, fails,
                    output, mergePos, progress >>
    /\ UNCHANGED lastCause
    /\ UNCHANGED jobVars

NextAttempt_Stuck(a) == a

\* attempt += 1
NextAttempt(a) == a + 1

SegName_Fixed(i) == 1

\* seg_name = os.path.join(tmpdir, f"seg_{idx:05d}.ts"): one name per idx.
SegName(i) == i

\* while attempt <= retries
MoreAttempts(a, r) == a <= r

Exhausted_OneEarly(a, r) == a >= r

Exhausted_OneLate(a, r) == a > r + 1

SegmentFetchError_ZeroBased(i, c) == Error("segment", i - 1, c)

\* raise RuntimeError(f"Failed to download segment {idx}: {e}")
SegmentFetchError(i, c) == Error("segment", i, c)

\* if attempt > retries: raise
Exhausted(a, r) == a > r

OpenWB_Append(old) == old

\* open(seg_name, "wb"): the file is created or truncated.
OpenWB(old) == <<>>

Contents(files, name) == IF name \in DOMAIN files THEN files[name] ELSE <<>>

WriteFile(files, name, bytes) ==
    [n \in DOMAIN files \cup {name} |-> IF n = name THEN bytes ELSE files[n]]

SegmentProgress_Remaining(i, n) == Fraction(n - i, n)

\* progress_bar.progress(idx / total_segments)
SegmentProgress(i, n) == Fraction(i, n)

\* Lines 131-133 and the step of the for loop: the code after the while
\* loop, reached by break (and by the loop condition turning false, which
\* the raise at line 130 always forestalls).  a is attempt on leaving.
AfterWhile(a) ==
    /\ segment_files' = Append(segment_files, SegName(idx))
    /\ progress' = Append(progress, SegmentProgress(idx, total_segments))
    /\ IF idx < total_segments
       THEN /\ idx' = idx + 1
            /\ attempt' = 0
            /\ pc' = "Fetch"
       ELSE /\ attempt' = a
            /\ pc' = "Merge"
            /\ UNCHANGED idx

\* One pass of the while loop in which session.get and the streaming of
\* the body succeed: the body is in seg_name, break.
FetchOk ==
    /\ pc = "Fetch"
    /\ MoreAttempts(attempt, retries)
    /\ reqs' = [reqs EXCEPT ![idx] = @ + 1]
    /\ tmpfiles' = WriteFile(tmpfiles, SegName(idx),
                       OpenWB(Contents(tmpfiles, SegName(idx))) \o segments[idx])
    /\ AfterWhile(NextAttempt(attempt))
    /\ UNCHANGED << retries, playlist, nloads, chosen, segments,
                    total_segments, tmpdir, output, mergePos, fails, err >>
    /\ UNCHANGED lastCause
    /\ UNCHANGED jobVars

\* One pass of the while loop in which the attempt raises: before the file
\* is opened (timeout, status) or while the body is streamed into it.  The
\* handler raises on the last attempt; otherwise the loop condition is
\* tested again.
FetchFails ==
    /\ pc = "Fetch"
    /\ MoreAttempts(attempt, retries)
    /\ reqs' = [reqs EXCEPT ![idx] = @ + 1]
    /\ fails' = [fails EXCEPT ![idx] = @ + 1]
    /\ \E c \in Causes :
         /\ lastCause' = c
         /\ IF c = "stream"
            THEN \E n \in 0..(Len(segments[idx]) - 1) :
                   tmpfiles' = WriteFile(tmpfiles, SegName(idx),
                       OpenWB(Contents(tmpfiles, SegName(idx)))
                           \o Prefix(segments[idx], n))
            ELSE UNCHANGED tmpfiles
         /\ IF Exhausted(NextAttempt(attempt), retries)
            THEN /\ RaiseInTry(SegmentFetchError(idx, c))
                 /\ attempt' = NextAttempt(attempt)
                 /\ UNCHANGED << segment_files, idx, progress >>
            ELSE IF MoreAttempts(NextAttempt(attempt), retries)
                 THEN /\ attempt' = NextAttempt(attempt)
                      /\ UNCHANGED << pc, err, segment_files, idx, progress >>
                 ELSE /\ AfterWhile(NextAttempt(attempt))
                      /\ UNCHANGED err
    /\ UNCHANGED << retries, playlist, nloads, chosen, segments,
                    total_segments, tmpdir, output, mergePos >>
    /\ UNCHANGED jobVars

\* open(output_file, "wb")
MergeOpen ==
    /\ pc = "Merge"
    /\ output' = File(OpenWB(output.data))
    /\ mergePos' = 1
    /\ pc' = "Copy"
    /\ UNCHANGED << retries, playlist, nloads, chosen, segments,
                    total_segments, tmpdir, tmpfiles, segment_files, idx,
                    attempt, reqs, fails, progress, err >>
    /\ UNCHANGED lastCause
    /\ UNCHANGED jobVars

\* open(output_file, "wb") raising: the path cannot be written.
MergeOpenFails ==
    /\ pc = "Merge"
    /\ RaiseInTry(Error("io", 0, "open"))
    /\ UNCHANGED << retries, playlist, nloads, chosen, segments,
                    total_segments, tmpdir, tmpfiles, segment_files, idx,
                    attempt, reqs, fails, output, mergePos, progress >>
    /\ UNCHANGED lastCause
    /\ UNCHANGED jobVars

CopyFileObj_Prepend(out, src) == src \o out

\* shutil.copyfileobj(s, outfh): the source's bytes after what is there.
CopyFileObj(out, src) == out \o src

\* One pass of "for segf in segment_files"; after the last one the final
\* progress update.
CopySegment ==
    /\ pc = "Copy"
    /\ output' = File(CopyFileObj(output.data,
                                  Contents(tmpfiles, segment_files[mergePos])))
    /\ IF mergePos < Len(segment_files)
       THEN /\ mergePos' = mergePos + 1
            /\ UNCHANGED << pc, progress >>
       ELSE /\ progress' = Append(progress, Fraction(1, 1))
            /\ pc' = "Finally"
            /\ UNCHANGED mergePos
    /\ UNCHANGED << retries, playlist, nloads, chosen, segments,
                    total_segments, tmpdir, tmpfiles, segment_files, idx,
                    attempt, reqs, fails, err >>
    /\ UNCHANGED lastCause
    /\ UNCHANGED jobVars

\* copyfileobj raising part way (disk full, read error): some leading part
\* of the segment file has been written.
CopyFails ==
    /\ pc = "Copy"
    /\ \E n \in 0..(Len(Contents(tmpfiles, segment_files[mergePos])) - 1) :
         output' = File(CopyFileObj(output.data,
                     Prefix(Contents(tmpfiles, segment_files[mergePos]), n)))
    /\ RaiseInTry(Error("io", 0, "copy"))
    /\ UNCHANGED << retries, playlist, nloads, chosen, segments,
                    total_segments, tmpdir, tmpfiles, segment_files, idx,
                    attempt, reqs, fails, mergePos, progress >>
    /\ UNCHANGED lastCause
    /\ UNCHANGED jobVars

\* shutil.rmtree(tmpdir, ignore_errors=True): whether the directory exists
\* afterwards, given whether it did.  It goes with all it holds.
RmTree_Skipped(dir) == dir

RmTree(dir) == FALSE

AfterFinally_Swallows(e) == "Done"

\* Where control goes when the finally clause ends: on to the statement
\* after the call (no exception in flight) or to the handler.
AfterFinally(e) == IF e = NoErr THEN "Done" ELSE "Except"

\* finally: rmtree; then either the normal return into run_download, which
\* reads the file and offers it, or the exception goes on to the handler.
Finally ==
    /\ pc = "Finally"
    /\ tmpdir' = RmTree(tmpdir)
    /\ tmpfiles' = IF tmpdir' THEN tmpfiles ELSE NoFiles
    /\ pc' = AfterFinally(err)
    /\ UNCHANGED << retries, playlist, nloads, chosen, segments,
                    total_segments, segment_files, idx, attempt, reqs, fails,
                    output, mergePos, progress, err >>
    /\ UNCHANGED lastCause
    /\ UNCHANGED jobVars

HandlerProgress_Full(e) == Fraction(1, 1)

\* progress_bar.progress(0.0) of run_download's handler
HandlerProgress(e) == Fraction(0, 1)

\* except Exception as e: st.error, log, progress_bar.progress(0.0)
Except ==
    /\ pc = "Except"
    /\ progress' = Append(progress, HandlerProgress(err))
    /\ pc' = "Failed"
    /\ UNCHANGED << retries, playlist, nloads, chosen, segments,
                    total_segments, tmpdir, tmpfiles, segment_files, idx,
                    attempt, reqs, fails, output, mergePos, err >>
    /\ UNCHANGED lastCause
    /\ UNCHANGED jobVars

Next ==
    \/ Start
    \/ LoadPlaylist
    \/ LoadPlaylistFails
    \/ SelectVariant
    \/ LoadChosen
    \/ LoadChosenFails
    \/ CheckSegments
    \/ MkdtempFails
    \/ FetchOk
    \/ FetchFails
    \/ MergeOpen
    \/ MergeOpenFails
    \/ CopySegment
    \/ CopyFails
    \/ Finally
    \/ Except

Spec == Init /\ [][Next]_vars

\* The job runs synchronously in one thread and every call it makes returns
\* (requests carry timeout=15): a step that can be taken is taken.
FairSpec == Spec /\ WF_vars(Next)

\* ------------------------------------------------- several jobs at once
\* Calls of run_download (HLS mode) running at once in one module
\* namespace, each in its own thread, interleaved step by step.  Only what
\* the jobs could share is kept of each: the module global progress_bar,
\* the directories mkdtemp creates, and the files written into them.

\* progress_bar.progress(...): the call goes to the widget the module
\* global is bound to when job j makes it.
ProgressCall(j) == [writers EXCEPT ![progress_bar] = @ \cup {j}]

\* global progress_bar; progress_bar = st.progress(0.0)
JStart(j) ==
    /\ jpc[j] = "Idle"
    /\ progress_bar' = j
    /\ jpc' = [jpc EXCEPT ![j] = "Resolve"]
    /\ UNCHANGED << writers, dirs, jfiles, jdir, jtotal, jidx, jerr >>

\* Lines 94-111 without a raise: tmpdir = tempfile.mkdtemp(), a directory
\* that did not exist; progress_bar.progress(0.0).
JResolve(j) ==
    /\ jpc[j] = "Resolve"
    /\ \E n \in 1..MaxSegs : jtotal' = [jtotal EXCEPT ![j] = n]
    /\ \E d \in DirNames \ dirs :
         /\ jdir' = [jdir EXCEPT ![j] = d]
         /\ dirs' = dirs \cup {d}
    /\ writers' = ProgressCall(j)
    /\ jidx' = [jidx EXCEPT ![j] = 1]
    /\ jpc' = [jpc EXCEPT ![j] = "Fetch"]
    /\ UNCHANGED << progress_bar, jfiles, jerr >>

\* Lines 94-107 raising.
JResolveFails(j) ==
    /\ jpc[j] = "Resolve"
    /\ jerr' = [jerr EXCEPT ![j] = TRUE]
    /\ jpc' = [jpc EXCEPT ![j] = "Except"]
    /\ UNCHANGED << progress_bar, writers, dirs, jfiles, jdir, jtotal, jidx >>

\* os.path.join(tmpdir, f"seg_{idx:05d}.ts"), written by job j
SegFile(j) == [dir |-> jdir[j], name |-> SegName(jidx[j]), writer |-> j]

\* One pass of the for loop whose retry loop ends in a break.
JFetchOk(j) ==
    /\ jpc[j] = "Fetch"
    /\ jfiles' = jfiles \cup {SegFile(j)}
    /\ writers' = ProgressCall(j)
    /\ IF jidx[j] < jtotal[j]
       THEN /\ jidx' = [jidx EXCEPT ![j] = @ + 1]
            /\ UNCHANGED jpc
       ELSE /\ jpc' = [jpc EXCEPT ![j] = "Merge"]
            /\ UNCHANGED jidx
    /\ UNCHANGED << progress_bar, dirs, jdir, jtotal, jerr >>

\* One pass of the for loop whose retry loop ends in the raise, a failed
\* attempt having written into the file or not.
JFetchFails(j) ==
    /\ jpc[j] = "Fetch"
    /\ \/ jfiles' = jfiles \cup {SegFile(j)}
       \/ UNCHANGED jfiles
    /\ jerr' = [jerr EXCEPT ![j] = TRUE]
    /\ jpc' = [jpc EXCEPT ![j] = "Finally"]
    /\ UNCHANGED << progress_bar, writers, dirs, jdir, jtotal, jidx >>

\* The merge and progress_bar.progress(1.0).
JMerge(j) ==
    /\ jpc[j] = "Merge"
    /\ writers' = ProgressCall(j)
    /\ jpc' = [jpc EXCEPT ![j] = "Finally"]
    /\ UNCHANGED << progress_bar, dirs, jfiles, jdir, jtotal, jidx, jerr >>

\* The merge raising (open or copyfileobj).
JMergeFails(j) ==
    /\ jpc[j] = "Merge"
    /\ jerr' = [jerr EXCEPT ![j] = TRUE]
    /\ jpc' = [jpc EXCEPT ![j] = "Finally"]
    /\ UNCHANGED << progress_bar, writers, dirs, jfiles, jdir, jtotal, jidx >>

\* finally: shutil.rmtree(tmpdir, ignore_errors=True)
JFinally(j) ==
    /\ jpc[j] = "Finally"
    /\ dirs' = dirs \ {jdir[j]}
    /\ jfiles' = { f \in jfiles : f.dir # jdir[j] }
    /\ jpc' = [jpc EXCEPT ![j] = IF jerr[j] THEN "Except" ELSE "Done"]
    /\ UNCHANGED << progress_bar, writers, jdir, jtotal, jidx, jerr >>

\* except Exception: progress_bar.progress(0.0)
JExcept(j) ==
    /\ jpc[j] = "Except"
    /\ writers' = ProgressCall(j)
    /\ jpc' = [jpc EXCEPT ![j] = "Failed"]
    /\ UNCHANGED << progress_bar, dirs, jfiles, jdir, jtotal, jidx, jerr >>

JobsFrame ==
    UNCHANGED << pc, retries, playlist, nloads, chosen, segments,
                 total_segments, tmpdir, tmpfiles, segment_files, idx,
                 attempt, reqs, fails, output, mergePos, progress, err,
                 lastCause >>

StartJob == JobsFrame /\ \E j \in Jobs : JStart(j)
ResolveJob == JobsFrame /\ \E j \in Jobs : JResolve(j)
ResolveJobFails == JobsFrame /\ \E j \in Jobs : JResolveFails(j)
FetchJobOk == JobsFrame /\ \E j \in Jobs : JFetchOk(j)
FetchJobFails == JobsFrame /\ \E j \in Jobs : JFetchFails(j)
MergeJob == JobsFrame /\ \E j \in Jobs : JMerge(j)
MergeJobFails == JobsFrame /\ \E j \in Jobs : JMergeFails(j)
FinallyJob == JobsFrame /\ \E j \in Jobs : JFinally(j)
ExceptJob == JobsFrame /\ \E j \in Jobs : JExcept(j)

NextJobs ==
    \/ StartJob
    \/ ResolveJob
    \/ ResolveJobFails
    \/ FetchJobOk
    \/ FetchJobFails
    \/ MergeJob
    \/ MergeJobFails
    \/ FinallyJob
    \/ ExceptJob

InitJobs == Init /\ retries = 0 /\ ~output.exists

SpecJobs == InitJobs /\ [][NextJobs]_vars

\* ------------------------------------------------------- claim vocabulary
Terminal == pc \in {"Done", "Failed"}

RECURSIVE Concat(_)
Concat(ss) == IF ss = <<>> THEN <<>> ELSE Head(ss) \o Concat(Tail(ss))

RECURSIVE SumLen(_)
SumLen(ss) == IF ss = <<>> THEN 0 ELSE Len(Head(ss)) + SumLen(Tail(ss))

Fetched(i) == SegName(i) \in Range(segment_files)

NoRequestFailed == \A i \in DOMAIN fails : fails[i] = 0

SegmentError(i) == err.kind = "segment" /\ err.ordinal = i

\* C1: a job that ends Done leaves at the output path exactly the segment
\* bodies concatenated in playlist order, its length the sum of theirs; and
\* a job on a media playlist of N >= 1 segments in which no segment request
\* failed (and no local file operation did) ends Done, not Failed.
C1_OrderedConcatenation ==
    /\ pc = "Done" =>
         /\ output = File(Concat(segments))
         /\ Len(output.data) = SumLen(segments)
         /\ Len(segment_files) = Len(segments)
    /\ ( /\ Terminal
         /\ playlist.kind = "media"
         /\ Len(playlist.segments) >= 1
         /\ NoRequestFailed
         /\ err.kind # "io" ) => pc = "Done"

C1_Witness ==
    /\ pc = "Done"
    /\ NoRequestFailed
    /\ Len(segments) = 2
    /\ segments[1] = <<"a", "b">>
    /\ segments[2] = <<"a">>
    /\ output.data = <<"a", "b", "a">>

\* C2: a segment whose every attempt fails gets exactly retries + 1
\* attempts: the segment error is raised with that many requests made, all
\* failed, it is raised as soon as they are, and no segment ever gets more.
C2_ExactAttemptCount ==
    /\ \A i \in DOMAIN reqs : reqs[i] <= retries + 1
    /\ err.kind = "segment" =>
         /\ reqs[err.ordinal] = retries + 1
         /\ fails[err.ordinal] = retries + 1
    /\ \A i \in DOMAIN reqs :
         (fails[i] = retries + 1) => SegmentError(i)
    /\ \A i \in DOMAIN reqs :
         (pc = "Fetch" /\ idx = i) =>
             (reqs[i] = attempt /\ fails[i] = attempt /\ attempt <= retries)

C2_Witness ==
    /\ pc = "Failed"
    /\ retries = 2
    /\ SegmentError(2)
    /\ reqs[2] = 3

\* C3: a segment whose first k attempts fail (k <= retries) and whose next
\* attempt succeeds has had exactly k + 1 requests: none follows the
\* success, the failures raise no segment error for it, and the job has
\* moved on to the next segment or to the merge.
C3_RetryRecovers ==
    \A i \in DOMAIN reqs :
        Fetched(i) =>
            /\ reqs[i] = fails[i] + 1
            /\ fails[i] <= retries
            /\ ~SegmentError(i)
            /\ pc = "Fetch" => idx > i

C3_Witness ==
    /\ pc = "Fetch"
    /\ retries = 2
    /\ idx = 2
    /\ Fetched(1)
    /\ fails[1] = 2
    /\ reqs[1] = 3
    /\ err = NoErr

\* C4: once a segment has exhausted its retries the job is over: later
\* segments have had no request and get none, earlier ones are not
\* requested again, the merge is never entered, the output path is left as
\* it was before the job, and the job ends Failed with that error.
C4_FailFast ==
    /\ [](err.kind = "segment" =>
            /\ pc \in {"Finally", "Except", "Failed"}
            /\ \A j \in DOMAIN reqs : j > err.ordinal => reqs[j] = 0
            /\ \A j \in DOMAIN reqs : j < err.ordinal => Fetched(j)
            /\ ~Fetched(err.ordinal)
            /\ mergePos = 0
            /\ output \in {AbsentFile, File(OldData)})
    /\ [][err.kind = "segment" =>
            /\ reqs' = reqs
            /\ output' = output
            /\ err' = err
            /\ pc' \in {"Except", "Failed"}]_vars

C4_Witness ==
    /\ pc = "Failed"
    /\ SegmentError(1)
    /\ total_segments = 2
    /\ reqs[2] = 0

\* C5: when the job has ended, Done or Failed, the scratch directory does
\* not exist and no segment file is left.
C5_ScratchRemoved ==
    Terminal => (~tmpdir /\ tmpfiles = NoFiles)

C5_Witness ==
    /\ pc = "Failed"
    /\ err.kind = "segment"
    /\ Len(segment_files) >= 1
    /\ ~tmpdir

\* A progress value that says completed = total.
Is100(p) == p.num = p.den

\* p <= q as fractions.
Leq(p, q) == p.num * q.den <= q.num * p.den

SomeFull == \E k \in DOMAIN progress : Is100(progress[k])

AllFetched == total_segments >= 1 /\ Len(segment_files) = total_segments

\* C6 (as claimed): a completed = total update has been emitted in a job
\* that has ended if and only if the job ended Done.
C6_FullIffDone ==
    Terminal => (SomeFull <=> pc = "Done")

\* C6 (amended): a completed = total update has been emitted exactly when
\* the last segment has been fetched; so every job that ends Done has
\* emitted one, and a job that ends Failed has emitted one exactly when it
\* failed in the merge.
C6_FullIffAllFetched ==
    /\ SomeFull <=> AllFetched
    /\ pc = "Done" => SomeFull
    /\ pc = "Failed" => (SomeFull <=> (err.kind = "io" /\ err.cause \in {"open", "copy"}))

C6_Witness ==
    /\ pc = "Failed"
    /\ SomeFull
    /\ err = Error("io", 0, "copy")

\* C7 (as claimed): every progress value is at least every earlier one of
\* the job, whether the job succeeds or fails.
C7_MonotoneAlways ==
    \A j, k \in DOMAIN progress : j < k => Leq(progress[j], progress[k])

\* C7 (amended): the progress values are non-decreasing except for the last
\* one of a failed job, the 0 that run_download's handler reports; up to
\* that reset, and throughout a job that succeeds, none is below an
\* earlier one.
C7_MonotoneUntilReset ==
    /\ \A j, k \in DOMAIN progress :
         j < k =>
            \/ Leq(progress[j], progress[k])
            \/ pc = "Failed" /\ k = Len(progress) /\ progress[k].num = 0
    /\ pc = "Failed" => progress[Len(progress)].num = 0

C7_Witness ==
    /\ pc = "Failed"
    /\ Len(progress) >= 4
    /\ progress[Len(progress) - 1] = Fraction(1, 2)
    /\ progress[Len(progress)] = Fraction(0, 1)

\* The phase of the job's state machine the code is in.  The finally
\* clause belongs to the end the job is about to reach.
Phase ==
    CASE pc = "Idle" -> <<"Idle", 0>>
      [] pc \in {"Load", "Variant", "LoadChosen", "Segments"} -> <<"Resolving", 0>>
      [] pc = "Fetch" -> <<"Fetching", idx>>
      [] pc \in {"Merge", "Copy"} -> <<"Merging", 0>>
      [] pc = "Finally" -> IF err = NoErr THEN <<"Done", 0>> ELSE <<"Failed", 0>>
      [] pc = "Except" -> <<"Failed", 0>>
      [] pc = "Done" -> <<"Done", 0>>
      [] pc = "Failed" -> <<"Failed", 0>>

PhaseStep(a, b, n) ==
    \/ a = <<"Idle", 0>> /\ b = <<"Resolving", 0>>
    \/ a = <<"Resolving", 0>> /\ b = <<"Fetching", 1>>
    \/ a[1] = "Fetching" /\ a[2] < n /\ b = <<"Fetching", a[2] + 1>>
    \/ a = <<"Fetching", n>> /\ b = <<"Merging", 0>>
    \/ a = <<"Merging", 0>> /\ b = <<"Done", 0>>
    \/ a[1] \notin {"Done", "Failed"} /\ b = <<"Failed", 0>>

\* C8: every step of a job stays in its phase or takes one edge of
\* Idle -> Resolving -> Fetching(1) -> ... -> Fetching(N) -> Merging -> Done
\* or the edge from a non-terminal phase to Failed; Failed holds exactly
\* when an error has been raised, and the error never changes afterwards;
\* Done and Failed are never left.
C8_PhaseOrder ==
    /\ [][Phase' = Phase \/ PhaseStep(Phase, Phase', total_segments')]_vars
    /\ [](Phase = <<"Failed", 0>> <=> err # NoErr)
    /\ [][err # NoErr => err' = err]_vars
    /\ [][Terminal => pc' = pc]_vars

C8_Witness ==
    /\ pc = "Done"
    /\ total_segments = 2
    /\ idx = 2
    /\ nloads = 2

\* The bandwidth a rendition counts with: its declared one, 0 if none.
DeclaredOrZero(b) == IF b.declared THEN b.value ELSE 0

\* C9: the rendition picked from a variant playlist has the greatest
\* bandwidth of all (an absent one counting 0), and every rendition listed
\* before it has strictly less: of several with the greatest, the first.
C9_MaxBandwidthFirstListed ==
    pc = "LoadChosen" =>
        /\ chosen \in DOMAIN playlist.renditions
        /\ \A j \in DOMAIN playlist.renditions :
             /\ DeclaredOrZero(playlist.renditions[j])
                   <= DeclaredOrZero(playlist.renditions[chosen])
             /\ j < chosen =>
                   DeclaredOrZero(playlist.renditions[j])
                       < DeclaredOrZero(playlist.renditions[chosen])

C9_Witness ==
    /\ pc = "LoadChosen"
    /\ playlist.renditions = << NoBandwidth,
                                [declared |-> TRUE, value |-> 2],
                                [declared |-> TRUE, value |-> 2] >>
    /\ chosen = 2

\* The load of the chosen rendition has returned a variant playlist.
NestedMasterLoaded ==
    pc = "Segments" /\ nloads = 2 /\ is_variant(playlist)

\* C10 (as claimed): a chosen rendition that is itself a variant playlist
\* makes the job fail with a parse error.
C10_NestedIsParseError ==
    [][NestedMasterLoaded => err' = Error("load", 0, "parse")]_vars

\* C10 (amended): a chosen rendition that is itself a variant playlist
\* makes the job fail at once with the no-segments error (a variant
\* playlist lists none): there is no third load, no scratch directory, no
\* segment request, and the output path is not touched.
C10_NestedIsNoSegments ==
    /\ [][NestedMasterLoaded =>
            /\ err' = Error("no_segments", 0, "none")
            /\ pc' = "Except"
            /\ nloads' = nloads]_vars
    /\ [](nloads <= 2)
    /\ [](err.kind = "no_segments" =>
            /\ pc \in {"Except", "Failed"}
            /\ ~tmpdir
            /\ reqs = <<>>
            /\ output \in {AbsentFile, File(OldData)})

C10_Witness ==
    /\ pc = "Failed"
    /\ nloads = 2
    /\ is_variant(playlist)
    /\ chosen = 2
    /\ err = Error("no_segments", 0, "none")

\* C11: when an append of the merge fails after the output path has been
\* opened, the job ends Failed with no file, truncated or otherwise, at the
\* output path.
C11_NoPartialOutput ==
    (pc = "Failed" /\ err = Error("io", 0, "copy")) => ~output.exists

IsStrictPrefix(p, s) == Len(p) < Len(s) /\ p = Prefix(s, Len(p))

\* C12 (as claimed): at the moment the segment error is raised (the finally
\* clause has not run yet) no file is at the failed segment's path.
C12_AbsentWhenRaised ==
    (pc = "Finally" /\ err.kind = "segment") =>
        SegName(err.ordinal) \notin DOMAIN tmpfiles

\* C12 (amended): by the time the segment error reaches the caller the
\* failed segment's path holds no file, the finally clause having removed
\* the scratch directory; at the raise itself the path may still hold what
\* a failed attempt wrote, a proper leading part of the body, which is
\* never listed for the merge.
C12_AbsentWhenHandled ==
    err.kind = "segment" =>
        /\ pc \in {"Except", "Failed"} =>
              (~tmpdir /\ SegName(err.ordinal) \notin DOMAIN tmpfiles)
        /\ (pc = "Finally" /\ SegName(err.ordinal) \in DOMAIN tmpfiles) =>
              /\ IsStrictPrefix(tmpfiles[SegName(err.ordinal)],
                                segments[err.ordinal])
              /\ ~Fetched(err.ordinal)

C12_Witness ==
    /\ pc = "Failed"
    /\ err = Error("segment", 2, "stream")
    /\ retries = 2
    /\ fails[2] = 3
    /\ tmpfiles = NoFiles

\* C14: the error raised when a segment exhausts its retries names that
\* segment by its 1-based ordinal (the one whose every request failed, all
\* before it fetched, none after it requested) and carries the cause of the
\* latest failed request, not that of an earlier one.
C14_ErrorNamesSegmentAndLastCause ==
    err.kind = "segment" =>
        /\ err.ordinal \in 1..total_segments
        /\ err.ordinal = idx
        /\ fails[err.ordinal] = reqs[err.ordinal]
        /\ reqs[err.ordinal] >= 1
        /\ \A j \in 1..total_segments :
             /\ j < err.ordinal => Fetched(j)
             /\ j > err.ordinal => reqs[j] = 0
        /\ err.cause \in Causes
        /\ err.cause = lastCause

\* The last attempt failed on its status while the file still holds what
\* an earlier attempt, failing in the stream, had written.
C14_Witness ==
    /\ pc = "Finally"
    /\ err = Error("segment", 2, "status")
    /\ total_segments = 2
    /\ SegName(2) \in DOMAIN tmpfiles
    /\ tmpfiles[SegName(2)] = <<"a">>

\* C15: segments are requested one at a time in ordinal order: a segment
\* has had a request only if the one before it has been fetched, a step
\* makes at most one request and makes it for the current idx, and when the
\* merge starts the list of temporary files has N entries, the i-th being
\* the file that holds the whole body of segment i.
C15_SequentialInOrder ==
    /\ [](\A i \in DOMAIN reqs : (i > 1 /\ reqs[i] > 0) => Fetched(i - 1))
    /\ [](pc = "Merge" =>
            /\ Len(segment_files) = total_segments
            /\ total_segments = Len(segments)
            /\ \A i \in 1..total_segments :
                 /\ segment_files[i] = SegName(i)
                 /\ segment_files[i] \in DOMAIN tmpfiles
                 /\ tmpfiles[segment_files[i]] = segments[i])
    /\ [][DOMAIN reqs' = DOMAIN reqs =>
            \A i \in DOMAIN reqs :
                reqs'[i] # reqs[i] =>
                    /\ pc = "Fetch"
                    /\ i = idx
                    /\ reqs'[i] = reqs[i] + 1
                    /\ \A j \in DOMAIN reqs : j # i => reqs'[j] = reqs[j]]_vars

C15_Witness ==
    /\ pc = "Merge"
    /\ total_segments = 2
    /\ segments[1] = <<"a", "b">>
    /\ segments[2] = <<"b">>
    /\ fails[1] = 1
    /\ reqs[2] = 1

\* C16: a fetched segment's temporary file holds exactly the body of the
\* successful response, whatever failed attempts wrote into it before; so
\* the output of a job that needed retries is the one a job without any
\* failure produces, the bodies concatenated in order.
C16_RetryOverwritesPartial ==
    /\ \A i \in DOMAIN fails :
         (Fetched(i) /\ tmpdir) =>
             /\ SegName(i) \in DOMAIN tmpfiles
             /\ tmpfiles[SegName(i)] = segments[i]
    /\ (pc = "Done" /\ ~NoRequestFailed) => output.data = Concat(segments)

\* Segment 1 was fetched on its second attempt after the first failed
\* while streaming into the file.
C16_Witness ==
    /\ pc = "Fetch"
    /\ idx = 2
    /\ fails = <<1, 0>>
    /\ reqs = <<2, 0>>
    /\ lastCause = "stream"
    /\ segments[1] = <<"a", "b">>
    /\ tmpfiles[SegName(1)] = <<"a", "b">>

ResolvingErrors == {"load", "no_streams", "no_segments"}

\* C17: the output path is written only by the merge, which starts only
\* when all N segments have been fetched and no error has been raised: a
\* job that fails in resolving or in fetching leaves the output path as it
\* was, absent or the old file; and the scratch directory is created only
\* once a playlist with segments has been resolved, so a job that fails in
\* resolving has created no directory and no file.
C17_OutputWrittenOnlyByMerge ==
    /\ [][output' # output =>
            /\ pc \in {"Merge", "Copy"}
            /\ AllFetched
            /\ err = NoErr]_vars
    /\ [][(tmpdir' # tmpdir \/ tmpfiles' # tmpfiles) =>
            /\ pc \in {"Segments", "Fetch", "Finally"}
            /\ playlist.segments # <<>>
            /\ err.kind \notin ResolvingErrors]_vars
    /\ [](err.kind \in ResolvingErrors \cup {"segment"} =>
            /\ pc \in {"Finally", "Except", "Failed"}
            /\ mergePos = 0)
    /\ [](err.kind \in ResolvingErrors =>
            (~tmpdir /\ tmpfiles = NoFiles /\ reqs = <<>>))

C17_Witness ==
    /\ pc = "Failed"
    /\ err.kind = "segment"
    /\ err.ordinal = 2
    /\ output = File(OldData)

RECURSIVE SumSeq(_)
SumSeq(s) == IF s = <<>> THEN 0 ELSE Head(s) + SumSeq(Tail(s))

\* C18: whatever attempts succeed or fail, the job ends, Done or Failed,
\* and it never makes more than N * (retries + 1) segment requests.
C18_Terminates ==
    /\ <>Terminal
    /\ [](SumSeq(reqs) <= Len(segments) * (retries + 1))

\* The bound is met: every segment but the last fetched on its last
\* attempt, the last one exhausted.
C18_Witness ==
    /\ pc = "Failed"
    /\ retries = 2
    /\ Len(segments) = 2
    /\ reqs = <<3, 3>>

\* Job j holds a scratch directory: from mkdtemp to rmtree.
HasScratch(j) == jpc[j] \in {"Fetch", "Merge", "Finally"}

\* No two jobs hold the same scratch directory, every file in a scratch
\* directory was written by the job that holds it, and a step removes only
\* files of a job that is in its finally clause.
ScratchIsolated ==
    /\ [](\A a, b \in Jobs :
            (a # b /\ HasScratch(a) /\ HasScratch(b)) => jdir[a] # jdir[b])
    /\ [](\A f \in jfiles : HasScratch(f.writer) /\ f.dir = jdir[f.writer])
    /\ [][\A f \in jfiles \ jfiles' :
            jpc[f.writer] = "Finally" /\ jpc'[f.writer] # "Finally"]_vars

\* Every progress call a widget has received came from the job that
\* created it.
ProgressIsolated ==
    [](\A w \in Jobs : writers[w] \subseteq {w})

=============================================================================
